---- MODULE Spec2Model ----
(***************************************************************************)
(* A model of the save synchronisation engine of gdrive-gamepass:          *)
(* SyncSession (sync_module.py) and its fork ManagerSession (savemgr.py),  *)
(* the remote configuration document they read and rewrite, the local      *)
(* settings they keep, and the Worker of ui.py that runs one sync call.    *)
(*                                                                         *)
(* Python lists are sequences; a Python index i (0-based, negative from    *)
(* the end) reaches element PyIdx(s, i) of the sequence.  A dict is a      *)
(* function from its keys.  SHA-1 is taken to be collision free: the       *)
(* digest of a byte string s is the string "<s>", which is injective on    *)
(* the byte strings of the model and keeps a concatenation of digests      *)
(* uniquely readable, as the fixed digest length does.                     *)
(***************************************************************************)
EXTENDS Integers, Sequences, FiniteSets, TLC

VARIABLES
    impl,          \* which session class was constructed
    app_config,    \* self.app_config: None until authenticate finds config.json
    remote,        \* content of config.json on the drive
    drive,         \* the archive files uploaded to the drive; a file's id is its position
    local_config,  \* self.local_config, shared by all workers of the session
    settings,      \* content of settings.json on disk
    dirs,          \* the save directory of every game
    temp,          \* the files in temp/
    clock,         \* number of archive titles handed out (time.time() in the title)
    pc,            \* position of the worker running sync(local_index)
    saves_list,    \* sync's local variable saves_list
    game_config,   \* push's game_config / pull's cloud_config
    working_json,  \* remote_config_handler's working_json, read and not yet uploaded
    archive,       \* push: title of the archive in temp/; pull: id of the file fetched
    result,        \* what Worker.run emitted for the last call: the branch, or the error
    pre,           \* history: how things stood when the running call was made
    ops,           \* history: what the running call has done so far
    hcall,         \* a direct call of remote_config_handler, in flight
    hashed,        \* the last calls of hash_dir, what they were given and what they gave
    thread_queue,  \* MainWindow.thread_queue: the workers that wait for their turn
    usr_input,     \* the widgets of the window are enabled: allow_usr_input(x)
    started,       \* history: the workers given to threadpool.start in the running queue
    twin           \* the same sync made by the two classes: where it started, what the first left

vars == <<impl, app_config, remote, drive, local_config, settings, dirs, temp, clock, pc,
          saves_list, game_config, working_json, archive, result, pre, ops, hcall,
          hashed, thread_queue, usr_input, started, twin>>

\* what no step of sync, of push, of pull or of the handler assigns
Fixed == <<impl, app_config, hashed, thread_queue, usr_input, started, twin>>

(***************************************************************************)
(* Bounds                                                                  *)
(***************************************************************************)
\* archives that may be named in a behaviour: by the syncs that run one after
\* the other (Spec), by workers that overlap (SpecConc)
MaxClock == 1
MaxClockConc == 2
\* direct calls of the handler: entries in the document, deletions counted
MaxDocGames == 3
MaxRevision == 1
\* direct calls of hash_dir: the calls that are remembered
MaxHashed == 2

\* the local indices of the games the session has in settings.json
Games == {0, 1}

NumGames == Cardinality(Games)

(***************************************************************************)
(* hash_file, hash_dir                                                     *)
(***************************************************************************)
Sha1(s) == "<" \o s \o ">"

\* the order sorted() puts names in
NameOrder == <<"a", "b", "d">>

Sorted(names) == SelectSeq(NameOrder, LAMBDA n : n \in names)

RECURSIVE Join(_)
Join(ss) == IF ss = <<>> THEN "" ELSE Head(ss) \o Join(Tail(ss))

hash_file(bytes) == Sha1(bytes)

RECURSIVE hash_dir(_)
hash_dir(t) ==
    LET fs == Sorted(DOMAIN t.files)
        ds == Sorted(DOMAIN t.dirs)
        hashes == [i \in 1 .. Len(fs) |-> hash_file(t.files[fs[i]])]
                  \o [i \in 1 .. Len(ds) |-> hash_dir(t.dirs[ds[i]])]
    IN  Sha1(Join(hashes))

EmptyTree == [files |-> <<>>, dirs |-> <<>>]
TreeA1 == [files |-> [a |-> "x"], dirs |-> <<>>]
TreeA2 == [files |-> [a |-> "y"], dirs |-> <<>>]
TreeB1 == [files |-> [b |-> "x"], dirs |-> <<>>]

\* the save directories the games of the model write
SaveTrees == {EmptyTree, TreeA1, TreeA2, TreeB1}

Present(t) == [present |-> TRUE, tree |-> t]
Missing == [present |-> FALSE, tree |-> EmptyTree]

\* hash_dir of a path: os.walk of a path that does not exist yields nothing
HashPath(d) == IF d.present THEN hash_dir(d.tree) ELSE Sha1(Join(<<>>))

\* 'da39a3ee5e6b4b0d3255bfef95601890afd80709', the SHA-1 of the empty string
EmptyHash == Sha1("")

(***************************************************************************)
(* remote_config_handler                                                   *)
(***************************************************************************)
\* PyIdx with a negative index counted from the last element, not from the end
PyIdxFromLast(s, i) == IF i >= 0 THEN i + 1 ELSE Len(s) + i

PyIdx(s, i) == IF i >= 0 THEN i + 1 ELSE Len(s) + i + 1

InRange(s, i) == PyIdx(s, i) \in 1 .. Len(s)

NoKwargs == <<>>

\* DictUpdate as an assignment of the entry: the fields that are not named go
DictReplace(d, kw) == kw

DictUpdate(d, kw) ==
    [k \in DOMAIN d \cup DOMAIN kw |-> IF k \in DOMAIN kw THEN kw[k] ELSE d[k]]

\* ListPop as s.pop(): the last element goes, whatever the index
ListPopLast(s, i) == SubSeq(s, 1, Len(s) - 1)

ListPop(s, i) ==
    [j \in 1 .. (Len(s) - 1) |-> IF j < PyIdx(s, i) THEN s[j] ELSE s[j + 1]]

\* NeedsWrite as "if kwargs:": a deletion is not uploaded
NeedsWriteKwargs(delete, kwargs) == kwargs # NoKwargs

\* "if kwargs or delete:" the handler uploads the document
NeedsWrite(delete, kwargs) == kwargs # NoKwargs \/ delete

\* NextRevision without the increment
NextRevisionKept(doc) == doc.base_revision

\* working_json['base_revision'] + 1
NextRevision(doc) == doc.base_revision + 1

Raise(e, doc) == [exc |-> e, doc |-> doc, ret |-> <<>>, write |-> FALSE]

\* The handler from the document it read to the document it holds, the value it
\* returns and whether it uploads.  index is {} for None and {i} for i.
Handler(doc, delete, index, kwargs) ==
    IF ~delete
    THEN IF index # {}
         THEN LET i == CHOOSE i \in index : TRUE
              IN  IF ~InRange(doc.games, i)
                  THEN Raise("IndexError", doc)
                  ELSE LET e == IF kwargs # NoKwargs
                                THEN DictUpdate(doc.games[PyIdx(doc.games, i)], kwargs)
                                ELSE doc.games[PyIdx(doc.games, i)]
                           w == [doc EXCEPT !.games[PyIdx(doc.games, i)] = e]
                       IN  [exc |-> "none", doc |-> w, ret |-> e,
                            write |-> NeedsWrite(delete, kwargs)]
         ELSE LET w == IF kwargs # NoKwargs
                       THEN [doc EXCEPT !.games = Append(doc.games, kwargs)]
                       ELSE doc
              IN  [exc |-> "none", doc |-> w, ret |-> w.games,
                   write |-> NeedsWrite(delete, kwargs)]
    ELSE IF kwargs # NoKwargs
         THEN Raise("ValueError", doc)
         ELSE IF index = {}
              THEN Raise("TypeError", doc)
              ELSE LET i == CHOOSE i \in index : TRUE
                   IN  IF ~InRange(doc.games, i)
                       THEN Raise("IndexError", doc)
                       ELSE LET w == [games |-> ListPop(doc.games, i),
                                      base_revision |-> NextRevision(doc)]
                            IN  [exc |-> "none", doc |-> w, ret |-> w.games,
                                 write |-> NeedsWrite(delete, kwargs)]

(***************************************************************************)
(* The games of the model                                                  *)
(***************************************************************************)
Name(ci) == "game" \o ToString(ci)

RootId(ci) == "root" \o ToString(ci)

\* the local list is in the reverse order of the remote list
CloudIndexOf(g) == NumGames - 1 - g

LocalEntry(g) == local_config.games[PyIdx(local_config.games, g)]

RemoteEntry(g) == remote.games[PyIdx(remote.games, LocalEntry(g).cloud_index)]

\* os.path.basename(save_path): the save directories of this installation
basename(path) == "wgs"

\* the save directories another installation pushes
OtherTrees == {EmptyTree, TreeA2}

\* the names another installation may have given the save directory of a game
OtherBasenames == {"wgs", "saves"}

\* add_game_entry: latest_hash of an entry that has no save yet
FreshLatestHash == IF impl = "sync_module" THEN "" ELSE EmptyHash

(***************************************************************************)
(* The state after the session is constructed and authenticated            *)
(***************************************************************************)
Title(name, ci, t) == [name |-> name, cloud_index |-> ci, time |-> t]

NoFile == [id |-> 0, title |-> Title("", 0, 0)]

NoDoc == [base_revision |-> 0, games |-> <<>>]

NoPre == [ok |-> FALSE, lc |-> FALSE, rc |-> FALSE, base |-> "", entry |-> <<>>,
          dir |-> Missing, arch |-> EmptyTree, remote |-> NoDoc,
          settings |-> [games |-> <<>>], files |-> 0, temp |-> 0, seen |-> {}]

NoOps == [reads |-> 0, writes |-> 0, transport |-> 0, progress |-> <<>>]

NoCall == [stage |-> "none", delete |-> FALSE, index |-> {}, kwargs |-> NoKwargs,
           doc |-> NoDoc, ret |-> <<>>, reads |-> 0, writes |-> 0]

NoOutcome == [result |-> "none", remote |-> NoDoc, settings |-> [games |-> <<>>],
              dirs |-> <<>>]

NoTwin == [stage |-> "none", g |-> 0, start |-> <<>>, first |-> NoOutcome]

\* position on the drive of the first archive of a game that was synced before
InitId(kind, g) == Cardinality({h \in Games : h <= g /\ kind[h] = "synced"})

InitDrive(kind) ==
    [i \in 1 .. Cardinality({g \in Games : kind[g] = "synced"}) |->
        LET g == CHOOSE g \in Games : kind[g] = "synced" /\ InitId(kind, g) = i
        IN  [title |-> Title(Name(CloudIndexOf(g)), CloudIndexOf(g), 0),
             parent |-> RootId(CloudIndexOf(g)), arcname |-> basename(g),
             tree |-> TreeA1]]

\* the remote entry at cloud index ci: left by add_game_entry, or pushed to once
InitRemoteEntry(kind, ci) ==
    LET g == CHOOSE g \in Games : CloudIndexOf(g) = ci
    IN  IF kind[g] = "synced"
        THEN [name |-> Name(ci), root_id |-> RootId(ci),
              latest_hash |-> hash_dir(TreeA1), saves |-> <<InitId(kind, g)>>]
        ELSE [name |-> Name(ci), root_id |-> RootId(ci),
              latest_hash |-> FreshLatestHash, saves |-> <<>>]

\* the local entry enable_game_entry wrote, or the one the last sync left
InitLocalEntry(kind, g) ==
    [name |-> Name(CloudIndexOf(g)), cloud_index |-> CloudIndexOf(g), path |-> g,
     base_hash |-> IF kind[g] = "synced" THEN hash_dir(TreeA1) ELSE EmptyHash]

\* the session when enable_game_entry has been called for the first n games
InitEnabled(kind, n) ==
    /\ remote = [base_revision |-> 0,
                 games |-> [i \in 1 .. NumGames |-> InitRemoteEntry(kind, i - 1)]]
    /\ drive = InitDrive(kind)
    /\ local_config = [games |-> [i \in 1 .. n |-> InitLocalEntry(kind, i - 1)]]
    /\ settings = local_config
    /\ dirs = [g \in Games |-> IF kind[g] = "synced" THEN Present(TreeA1)
                                                      ELSE Present(EmptyTree)]
    /\ temp = {}
    /\ clock = 0
    /\ pc = [g \in Games |-> "idle"]
    /\ saves_list = [g \in Games |-> <<>>]
    /\ game_config = [g \in Games |-> <<>>]
    /\ working_json = [g \in Games |-> NoDoc]
    /\ archive = [g \in Games |-> NoFile]
    /\ result = [g \in Games |-> "none"]
    /\ pre = [g \in Games |-> NoPre]
    /\ ops = [g \in Games |-> NoOps]
    /\ hcall = NoCall
    /\ hashed = <<>>
    /\ thread_queue = <<>>
    /\ usr_input = TRUE
    /\ started = <<>>
    /\ twin = NoTwin

InitSession(kind) == InitEnabled(kind, NumGames)

Init ==
    /\ impl \in {"sync_module", "savemgr"}
    /\ app_config \in {"None", "config.json"}
    /\ \E kind \in [Games -> {"synced", "fresh"}] : InitSession(kind)

(***************************************************************************)
(* Helpers of the steps                                                    *)
(***************************************************************************)
AllIdle == \A h \in Games : pc[h] = "idle"

\* every running call may still name one archive
TitlesLeft(max) == clock + Cardinality({h \in Games : pc[h] # "idle"}) < max

SetBaseHash(cfg, g, h) == [cfg EXCEPT !.games[PyIdx(cfg.games, g)].base_hash = h]

\* Worker.run: the call returned (result) or raised (error)
Emit(g, r) ==
    /\ pc' = [pc EXCEPT ![g] = "done"]
    /\ result' = [result EXCEPT ![g] = r]

Goto(g, p) ==
    /\ pc' = [pc EXCEPT ![g] = p]
    /\ UNCHANGED result

Counted(g, r, w, t) ==
    [ops EXCEPT ![g].reads = @ + r, ![g].writes = @ + w, ![g].transport = @ + t]

Count(g, r, w, t) == ops' = Counted(g, r, w, t)

\* progress_callback(n, local_index): ManagerSession reports, SyncSession has
\* its thread_reporter commented out and reports nothing
progress_callback(o, g, n) ==
    IF impl = "savemgr" THEN [o EXCEPT ![g].progress = Append(@, n)] ELSE o

\* "except AttributeError: return None": nothing is read and nothing is raised
ReturnsNone == [exc |-> "none", doc |-> NoDoc, ret |-> <<>>, write |-> FALSE]

\* the reads of the document a call of the handler makes
Reads == IF app_config = "None" THEN 0 ELSE 1

\* remote_config_handler(index=cloud_index): the entry, read from the drive
GetEntry(g) ==
    IF app_config = "None" THEN ReturnsNone
    ELSE Handler(remote, FALSE, {LocalEntry(g).cloud_index}, NoKwargs)

\* diff(local_index): has the save directory changed since the base version
DiffLocal(g) == HashPath(dirs[LocalEntry(g).path]) # LocalEntry(g).base_hash

\* diff(local_index, diff_local=False): what it raises; cloud_config['latest_hash']
\* of None is a TypeError
DiffRemoteExc(g) == IF app_config = "None" THEN "TypeError" ELSE GetEntry(g).exc

\* game_config = self.remote_config_handler(index=cloud_index), then a
\* subscript of it: what the two raise; a subscript of None is a TypeError
EntryExc(g) == IF app_config = "None" THEN "TypeError" ELSE GetEntry(g).exc

\* diff(local_index, diff_local=False): does the remote differ from the base version
DiffRemote(g) == GetEntry(g).ret["latest_hash"] # LocalEntry(g).base_hash

(***************************************************************************)
(* sync(local_index), one step per hash of the directory, per call of the  *)
(* handler and per transport call                                          *)
(***************************************************************************)
Locals == <<saves_list, game_config, working_json, archive>>

Stores == <<remote, drive, local_config, settings, dirs, temp, clock>>

\* the pair (localChanged, remoteChanged) as it holds now
Class(g) == <<DiffLocal(g), DiffRemoteExc(g) = "none" /\ DiffRemote(g)>>

\* history: how things stand for game g when a call for it is made
Snapshot(g) ==
    [ok |-> DiffRemoteExc(g) = "none",
     lc |-> DiffLocal(g),
     rc |-> DiffRemoteExc(g) = "none" /\ DiffRemote(g),
     base |-> LocalEntry(g).base_hash,
     entry |-> GetEntry(g).ret,
     dir |-> dirs[LocalEntry(g).path],
     arch |-> IF DiffRemoteExc(g) = "none" /\ GetEntry(g).ret["saves"] # <<>>
              THEN drive[GetEntry(g).ret["saves"][Len(GetEntry(g).ret["saves"])]].tree
              ELSE EmptyTree,
     remote |-> remote,
     settings |-> settings,
     files |-> Len(drive),
     temp |-> Cardinality(temp),
     seen |-> {Class(g)}]

\* the first statements of sync:
\* saves_list = self.remote_config_handler(index=cloud_index)
Enter(g) ==
    /\ pre' = [pre EXCEPT ![g] = Snapshot(g)]
    /\ ops' = [ops EXCEPT ![g] = [NoOps EXCEPT !.reads = Reads]]
    /\ IF GetEntry(g).exc # "none"
       THEN Emit(g, GetEntry(g).exc) /\ UNCHANGED saves_list
       ELSE /\ saves_list' = [saves_list EXCEPT ![g] = GetEntry(g).ret]
            /\ Goto(g, "c1_local")
    /\ UNCHANGED <<Fixed, Stores, game_config, working_json, archive, hcall>>

\* sync is called for a game that has no sync running
Call(g) == pc[g] = "idle" /\ Enter(g)

\* a call that is going to push needs a title for its archive
CanName(g, max) ==
    clock < max \/ ~(DiffLocal(g) /\ DiffRemoteExc(g) = "none" /\ ~DiffRemote(g))

\* the worker of the next game starts when the one before has finished; a call
\* that is going to push needs a title
SyncCall(g) ==
    /\ AllIdle
    /\ TitlesLeft(MaxClock) \/ ~(DiffLocal(g) /\ DiffRemoteExc(g) = "none" /\ ~DiffRemote(g))
    /\ Call(g)

\* "if self.diff(local_index) and ...": the left operand
C1Local(g) ==
    /\ pc[g] = "c1_local"
    /\ Goto(g, IF DiffLocal(g) THEN "c1_remote" ELSE "c2_local")
    /\ UNCHANGED <<Fixed, Stores, Locals, pre, ops, hcall>>

\* C1Remote with the remote side winning a conflict: the call goes on to pull
C1RemoteWins(g) ==
    /\ pc[g] = "c1_remote"
    /\ Count(g, Reads, 0, 0)
    /\ IF DiffRemoteExc(g) # "none"
       THEN Emit(g, DiffRemoteExc(g))
       ELSE Goto(g, IF DiffRemote(g) THEN "pull_read" ELSE "c2_local")
    /\ UNCHANGED <<Fixed, Stores, Locals, pre, hcall>>

\* "... and self.diff(local_index, diff_local=False)": conflict, return saves_list
C1Remote(g) ==
    /\ pc[g] = "c1_remote"
    /\ Count(g, Reads, 0, 0)
    /\ IF DiffRemoteExc(g) # "none"
       THEN Emit(g, DiffRemoteExc(g))
       ELSE IF DiffRemote(g) THEN Emit(g, "conflict") ELSE Goto(g, "c2_local")
    /\ UNCHANGED <<Fixed, Stores, Locals, pre, hcall>>

\* "elif not self.diff(local_index) and ...": the left operand
C2Local(g) ==
    /\ pc[g] = "c2_local"
    /\ Goto(g, IF ~DiffLocal(g) THEN "c2_remote" ELSE "c3_local")
    /\ UNCHANGED <<Fixed, Stores, Locals, pre, ops, hcall>>

\* "... and self.diff(local_index, diff_local=False)": pull
C2Remote(g) ==
    /\ pc[g] = "c2_remote"
    /\ Count(g, Reads, 0, 0)
    /\ IF DiffRemoteExc(g) # "none"
       THEN Emit(g, DiffRemoteExc(g))
       ELSE Goto(g, IF DiffRemote(g) THEN "pull_read" ELSE "c3_local")
    /\ UNCHANGED <<Fixed, Stores, Locals, pre, hcall>>

\* C3Local without its left operand: a directory that has not changed is pushed
C3LocalSkipped(g) ==
    /\ pc[g] = "c3_local"
    /\ Goto(g, "c3_remote")
    /\ UNCHANGED <<Fixed, Stores, Locals, pre, ops, hcall>>

\* "elif self.diff(local_index) and ...": the left operand; else nothing to do
C3Local(g) ==
    /\ pc[g] = "c3_local"
    /\ IF DiffLocal(g)
       THEN Goto(g, "c3_remote") /\ UNCHANGED ops
       ELSE Emit(g, "noop") /\ ops' = progress_callback(ops, g, 100)
    /\ UNCHANGED <<Fixed, Stores, Locals, pre, hcall>>

\* what the push branch of sync does: SyncSession calls push, ManagerSession
\* has the call commented out and only logs "Pushed"
PushBranch(g) == IF impl = "sync_module" THEN Goto(g, "push_read") ELSE Emit(g, "pushed")

\* "... and not self.diff(local_index, diff_local=False)": push; else nothing to do
C3Remote(g) ==
    /\ pc[g] = "c3_remote"
    /\ IF DiffRemoteExc(g) # "none"
       THEN Emit(g, DiffRemoteExc(g)) /\ Count(g, Reads, 0, 0)
       ELSE IF ~DiffRemote(g)
            THEN PushBranch(g) /\ Count(g, Reads, 0, 0)
            ELSE Emit(g, "noop") /\ ops' = progress_callback(Counted(g, Reads, 0, 0), g, 100)
    /\ UNCHANGED <<Fixed, Stores, Locals, pre, hcall>>

(***************************************************************************)
(* push(local_index)                                                       *)
(***************************************************************************)
\* game_config = self.remote_config_handler(index=cloud_index)
PushRead(g) ==
    /\ pc[g] = "push_read"
    /\ Count(g, Reads, 0, 0)
    /\ IF EntryExc(g) # "none"
       THEN Emit(g, EntryExc(g)) /\ UNCHANGED game_config
       ELSE /\ game_config' = [game_config EXCEPT ![g] = GetEntry(g).ret]
            /\ Goto(g, "push_hash")
    /\ UNCHANGED <<Fixed, Stores, saves_list, working_json, archive, pre, hcall>>

\* PushHash without "game_config['latest_hash'] = save_hash"
PushHashLocalOnly(g) ==
    /\ pc[g] = "push_hash"
    /\ local_config' = SetBaseHash(local_config, g, HashPath(dirs[LocalEntry(g).path]))
    /\ Goto(g, "push_tar")
    /\ UNCHANGED <<Fixed, remote, drive, settings, dirs, temp, clock, Locals, pre, ops,
                   hcall>>

\* save_hash = hash_dir(save_path), stored in game_config and in the local entry
PushHash(g) ==
    /\ pc[g] = "push_hash"
    /\ LET save_hash == HashPath(dirs[LocalEntry(g).path])
       IN  /\ game_config' = [game_config EXCEPT ![g]["latest_hash"] = save_hash]
           /\ local_config' = SetBaseHash(local_config, g, save_hash)
    /\ Goto(g, "push_tar")
    /\ UNCHANGED <<Fixed, remote, drive, settings, dirs, temp, clock, saves_list,
                   working_json, archive, pre, ops, hcall>>

\* tarfile.open('temp/' + archive_name, 'w:'); tar.add(save_path, ...)
PushTar(g) ==
    /\ pc[g] = "push_tar"
    /\ clock' = clock + 1
    /\ LET title == Title(LocalEntry(g).name, LocalEntry(g).cloud_index, clock + 1)
           d == dirs[LocalEntry(g).path]
       IN  /\ temp' = temp \cup {[title |-> title, arcname |-> basename(LocalEntry(g).path),
                                  tree |-> d.tree]}
           /\ archive' = [archive EXCEPT ![g] = [id |-> 0, title |-> title]]
           /\ IF d.present THEN Goto(g, "push_upload") ELSE Emit(g, "FileNotFoundError")
    /\ Count(g, 0, 0, 1)
    /\ UNCHANGED <<Fixed, remote, drive, local_config, settings, dirs, saves_list,
                   game_config, working_json, pre, hcall>>

TempFile(title) == CHOOSE f \in temp : f.title = title

\* fileitem.SetContentFile('temp/' + archive_name); fileitem.Upload()
PushUpload(g) ==
    /\ pc[g] = "push_upload"
    /\ drive' = Append(drive, [title |-> archive[g].title,
                               parent |-> game_config[g]["root_id"],
                               arcname |-> TempFile(archive[g].title).arcname,
                               tree |-> TempFile(archive[g].title).tree])
    /\ archive' = [archive EXCEPT ![g].id = Len(drive) + 1]
    /\ Count(g, 0, 0, 1)
    /\ Goto(g, "push_persist")
    /\ UNCHANGED <<Fixed, remote, local_config, settings, dirs, temp, clock, saves_list,
                   game_config, working_json, pre, hcall>>

\* the upload fails: no file appears on the drive
PushUploadFail(g) ==
    /\ pc[g] = "push_upload"
    /\ Count(g, 0, 0, 1)
    /\ Emit(g, "UploadError")
    /\ UNCHANGED <<Fixed, Stores, Locals, pre, hcall>>

\* game_config['saves'].append(fileitem['id']); self.update_local_config()
PushPersist(g) ==
    /\ pc[g] = "push_persist"
    /\ game_config' = [game_config EXCEPT ![g]["saves"] = Append(@, archive[g].id)]
    /\ settings' = local_config
    /\ Goto(g, "push_config_read")
    /\ UNCHANGED <<Fixed, remote, drive, local_config, dirs, temp, clock, saves_list,
                   working_json, archive, pre, ops, hcall>>

\* self.remote_config_handler(index=cloud_index, **game_config): the document is
\* read and the entry updated in working_json
PushConfigRead(g) ==
    /\ pc[g] = "push_config_read"
    /\ Count(g, 1, 0, 0)
    /\ LET r == Handler(remote, FALSE, {LocalEntry(g).cloud_index}, game_config[g])
       IN  IF r.exc # "none"
           THEN Emit(g, r.exc) /\ UNCHANGED working_json
           ELSE /\ working_json' = [working_json EXCEPT ![g] = r.doc]
                /\ Goto(g, "push_config_write")
    /\ UNCHANGED <<Fixed, Stores, saves_list, game_config, archive, pre, hcall>>

\* self.app_config.SetContentString(...); self.app_config.Upload()
PushConfigWrite(g) ==
    /\ pc[g] = "push_config_write"
    /\ remote' = working_json[g]
    /\ Count(g, 0, 1, 0)
    /\ Emit(g, "pushed")
    /\ UNCHANGED <<Fixed, drive, local_config, settings, dirs, temp, clock, Locals,
                   pre, hcall>>

\* the upload of the document fails
PushConfigWriteFail(g) ==
    /\ pc[g] = "push_config_write"
    /\ Emit(g, "ConfigUploadError")
    /\ UNCHANGED <<Fixed, Stores, Locals, pre, ops, hcall>>

(***************************************************************************)
(* pull(local_index), save_index = -1                                      *)
(***************************************************************************)
\* PullRead with save_index = 0: the oldest save of the game
PullReadOldest(g) ==
    /\ pc[g] = "pull_read"
    /\ IF EntryExc(g) # "none"
       THEN /\ Emit(g, EntryExc(g)) /\ Count(g, Reads, 0, 0)
            /\ UNCHANGED <<game_config, archive, local_config>>
       ELSE LET cloud_config == GetEntry(g).ret
            IN  /\ game_config' = [game_config EXCEPT ![g] = cloud_config]
                /\ IF ~InRange(cloud_config["saves"], 0)
                   THEN /\ Emit(g, "IndexError") /\ Count(g, Reads, 0, 0)
                        /\ UNCHANGED <<archive, local_config>>
                   ELSE /\ archive' = [archive EXCEPT ![g].id =
                              cloud_config["saves"][PyIdx(cloud_config["saves"], 0)]]
                        /\ local_config' =
                              SetBaseHash(local_config, g, cloud_config["latest_hash"])
                        /\ ops' = progress_callback(Counted(g, Reads, 0, 0), g, 25)
                        /\ Goto(g, "pull_download")
    /\ UNCHANGED <<Fixed, remote, drive, settings, dirs, temp, clock, saves_list,
                   working_json, pre, hcall>>

\* cloud_config = self.remote_config_handler(index=cloud_index);
\* save_id = cloud_config['saves'][-1]; base_hash = cloud_config['latest_hash']
PullRead(g) ==
    /\ pc[g] = "pull_read"
    /\ IF EntryExc(g) # "none"
       THEN /\ Emit(g, EntryExc(g)) /\ Count(g, Reads, 0, 0)
            /\ UNCHANGED <<game_config, archive, local_config>>
       ELSE LET cloud_config == GetEntry(g).ret
            IN  /\ game_config' = [game_config EXCEPT ![g] = cloud_config]
                /\ IF ~InRange(cloud_config["saves"], -1)
                   THEN /\ Emit(g, "IndexError") /\ Count(g, Reads, 0, 0)
                        /\ UNCHANGED <<archive, local_config>>
                   ELSE /\ archive' = [archive EXCEPT ![g].id =
                              cloud_config["saves"][PyIdx(cloud_config["saves"], -1)]]
                        /\ local_config' =
                              SetBaseHash(local_config, g, cloud_config["latest_hash"])
                        /\ ops' = progress_callback(Counted(g, Reads, 0, 0), g, 25)
                        /\ Goto(g, "pull_download")
    /\ UNCHANGED <<Fixed, remote, drive, settings, dirs, temp, clock, saves_list,
                   working_json, pre, hcall>>

\* fileitem.GetContentFile('temp/' + fileitem['title'])
PullDownload(g) ==
    /\ pc[g] = "pull_download"
    /\ LET fileitem == drive[archive[g].id]
       IN  /\ temp' = {f \in temp : f.title # fileitem.title}
                      \cup {[title |-> fileitem.title, arcname |-> fileitem.arcname,
                             tree |-> fileitem.tree]}
           /\ archive' = [archive EXCEPT ![g].title = fileitem.title]
    /\ ops' = progress_callback(Counted(g, 0, 0, 1), g, 50)
    /\ Goto(g, "pull_rmtree")
    /\ UNCHANGED <<Fixed, remote, drive, local_config, settings, dirs, clock, saves_list,
                   game_config, working_json, pre, hcall>>

\* the download fails
PullDownloadFail(g) ==
    /\ pc[g] = "pull_download"
    /\ Count(g, 0, 0, 1)
    /\ Emit(g, "DownloadError")
    /\ UNCHANGED <<Fixed, Stores, Locals, pre, hcall>>

\* shutil.rmtree(save_path)
PullRmtree(g) ==
    /\ pc[g] = "pull_rmtree"
    /\ Count(g, 0, 0, 1)
    /\ IF dirs[LocalEntry(g).path].present
       THEN /\ dirs' = [dirs EXCEPT ![LocalEntry(g).path] = Missing]
            /\ Goto(g, "pull_extract")
       ELSE Emit(g, "FileNotFoundError") /\ UNCHANGED dirs
    /\ UNCHANGED <<Fixed, remote, drive, local_config, settings, temp, clock, Locals,
                   pre, hcall>>

\* tarfile.open('temp/' + fileitem['title'], 'r'); tar.extractall(extract_path):
\* extract_path is the parent of save_path, and the archive holds one directory,
\* named as the directory it was made from; under another name it lands beside
\* save_path, which stays removed
PullExtract(g) ==
    /\ pc[g] = "pull_extract"
    /\ dirs' = [dirs EXCEPT ![LocalEntry(g).path] =
                  IF TempFile(archive[g].title).arcname = basename(LocalEntry(g).path)
                  THEN Present(TempFile(archive[g].title).tree)
                  ELSE @]
    /\ ops' = progress_callback(Counted(g, 0, 0, 1), g, 75)
    /\ Goto(g, "pull_finish")
    /\ UNCHANGED <<Fixed, remote, drive, local_config, settings, temp, clock, Locals,
                   pre, hcall>>

\* the archive cannot be read or extracted
PullExtractFail(g) ==
    /\ pc[g] = "pull_extract"
    /\ Count(g, 0, 0, 1)
    /\ Emit(g, "ArchiveCorrupt")
    /\ UNCHANGED <<Fixed, Stores, Locals, pre, hcall>>

\* os.remove('temp/' + fileitem['title']); self.update_local_config()
PullFinish(g) ==
    /\ pc[g] = "pull_finish"
    /\ temp' = {f \in temp : f.title # archive[g].title}
    /\ settings' = local_config
    /\ ops' = progress_callback(ops, g, 100)
    /\ Emit(g, "pulled")
    /\ UNCHANGED <<Fixed, remote, drive, local_config, dirs, clock, Locals, pre, hcall>>

(***************************************************************************)
(* Worker.run and what happens around the session                          *)
(***************************************************************************)
\* self.signals.finished.emit(): the call is over, its locals are gone
WorkerFinished(g) ==
    /\ pc[g] = "done"
    /\ pc' = [pc EXCEPT ![g] = "idle"]
    /\ result' = [result EXCEPT ![g] = "none"]
    /\ saves_list' = [saves_list EXCEPT ![g] = <<>>]
    /\ game_config' = [game_config EXCEPT ![g] = <<>>]
    /\ working_json' = [working_json EXCEPT ![g] = NoDoc]
    /\ archive' = [archive EXCEPT ![g] = NoFile]
    /\ pre' = [pre EXCEPT ![g] = NoPre]
    /\ ops' = [ops EXCEPT ![g] = NoOps]
    /\ UNCHANGED <<Fixed, Stores, hcall>>

\* the game writes its save directory while no sync of it runs
LocalEdit(g) ==
    /\ pc[g] = "idle"
    /\ \E t \in SaveTrees :
          /\ dirs[LocalEntry(g).path] # Present(t)
          /\ dirs' = [dirs EXCEPT ![LocalEntry(g).path] = Present(t)]
    /\ UNCHANGED <<Fixed, remote, drive, local_config, settings, temp, clock, pc, Locals,
                   result, pre, ops, hcall>>

\* another installation pushes a save of the game (its push, from PushHash to
\* PushConfigWrite, taken as one step) while no sync of the game runs here
OtherClientPush(g) ==
    /\ pc[g] = "idle"
    /\ \E t \in OtherTrees, arcname \in OtherBasenames :
          /\ hash_dir(t) # RemoteEntry(g)["latest_hash"]
          /\ clock' = clock + 1
          /\ drive' = Append(drive, [title |-> Title(RemoteEntry(g)["name"],
                                                     LocalEntry(g).cloud_index, clock + 1),
                                     parent |-> RemoteEntry(g)["root_id"],
                                     arcname |-> arcname, tree |-> t])
          /\ remote' = Handler(remote, FALSE, {LocalEntry(g).cloud_index},
                               [latest_hash |-> hash_dir(t),
                                saves |-> Append(RemoteEntry(g)["saves"], Len(drive) + 1)]).doc
    /\ UNCHANGED <<Fixed, local_config, settings, dirs, temp, pc, Locals, result, pre, ops,
                   hcall>>

\* the statements of sync after the first, of push and of pull
SyncWork(g) ==
    \/ C1Local(g) \/ C1Remote(g) \/ C2Local(g) \/ C2Remote(g) \/ C3Local(g) \/ C3Remote(g)

PushWork(g) ==
    \/ PushRead(g) \/ PushHash(g) \/ PushTar(g) \/ PushUpload(g) \/ PushUploadFail(g)
    \/ PushPersist(g) \/ PushConfigRead(g) \/ PushConfigWrite(g) \/ PushConfigWriteFail(g)

PullWork(g) ==
    \/ PullRead(g) \/ PullDownload(g) \/ PullDownloadFail(g) \/ PullRmtree(g)
    \/ PullExtract(g) \/ PullExtractFail(g) \/ PullFinish(g)

Work(g) == SyncWork(g) \/ PushWork(g) \/ PullWork(g)

Step(g) == Work(g) \/ WorkerFinished(g)

\* the syncs of a session run one after the other, as consecutive_save_sync
\* queues them, and the games and the other installations act between two syncs
Between(A) == AllIdle /\ A

Next ==
    \E g \in Games :
        \/ SyncCall(g)
        \/ Step(g)
        \/ Between(LocalEdit(g))
        \/ Between(TitlesLeft(MaxClock) /\ OtherClientPush(g))

Spec == Init /\ [][Next]_vars

(***************************************************************************)
(* Workers that overlap: the session is shared, and every step above is    *)
(* one remote read, one remote write, one transport call or local work     *)
(***************************************************************************)
CallConc(g) == TitlesLeft(MaxClockConc) /\ Call(g)

NextConc ==
    \E g \in Games :
        \/ CallConc(g)
        \/ Step(g)
        \/ LocalEdit(g)

SpecConc == Init /\ [][NextConc]_vars

(***************************************************************************)
(* One sync at a time, while the game and another installation go on       *)
(* writing: between two checks of the if/elif chain of sync the save       *)
(* directory or the remote entry may change                                *)
(***************************************************************************)
\* sync is between its first statement and the end of its if/elif chain
Classifying(g) ==
    pc[g] \in {"c1_local", "c1_remote", "c2_local", "c2_remote", "c3_local", "c3_remote"}

\* history: the pair (localChanged, remoteChanged) has become c
Seen(g, c) == pre' = [pre EXCEPT ![g].seen = @ \cup {c}]

\* the game writes its save directory while sync classifies
LocalEditDuring(g) ==
    /\ Classifying(g)
    /\ \E t \in SaveTrees :
          /\ dirs[LocalEntry(g).path] # Present(t)
          /\ dirs' = [dirs EXCEPT ![LocalEntry(g).path] = Present(t)]
          /\ Seen(g, <<hash_dir(t) # LocalEntry(g).base_hash, Class(g)[2]>>)
    /\ UNCHANGED <<Fixed, remote, drive, local_config, settings, temp, clock, pc, Locals,
                   result, ops, hcall>>

\* another installation pushes a save of the game while sync classifies
OtherClientPushDuring(g) ==
    /\ Classifying(g)
    /\ app_config # "None"
    /\ clock < MaxClock
    /\ \E t \in OtherTrees, arcname \in OtherBasenames :
          /\ hash_dir(t) # RemoteEntry(g)["latest_hash"]
          /\ clock' = clock + 1
          /\ drive' = Append(drive, [title |-> Title(RemoteEntry(g)["name"],
                                                     LocalEntry(g).cloud_index, clock + 1),
                                     parent |-> RemoteEntry(g)["root_id"],
                                     arcname |-> arcname, tree |-> t])
          /\ remote' = Handler(remote, FALSE, {LocalEntry(g).cloud_index},
                               [latest_hash |-> hash_dir(t),
                                saves |-> Append(RemoteEntry(g)["saves"], Len(drive) + 1)]).doc
          /\ Seen(g, <<Class(g)[1], hash_dir(t) # LocalEntry(g).base_hash>>)
    /\ UNCHANGED <<Fixed, local_config, settings, dirs, temp, pc, Locals, result, ops,
                   hcall>>

\* the calls that are made before the archives of the model are all named
RaceCall(g) == AllIdle /\ clock < MaxClock /\ Call(g)

NextRace ==
    \E g \in Games :
        \/ RaceCall(g)
        \/ Step(g)
        \/ LocalEditDuring(g)
        \/ OtherClientPushDuring(g)

SpecRace == Init /\ [][NextRace]_vars

(***************************************************************************)
(* push and pull called directly, as the methods of the session they are,  *)
(* one call at a time                                                      *)
(***************************************************************************)
\* push(local_index) or pull(local_index) is called: method is the position
\* of its first statement
Direct(g, method) ==
    /\ AllIdle
    /\ pre' = [pre EXCEPT ![g] = Snapshot(g)]
    /\ ops' = [ops EXCEPT ![g] = NoOps]
    /\ Goto(g, method)
    /\ UNCHANGED <<Fixed, Stores, Locals, hcall>>

PushCall(g) == TitlesLeft(MaxClock) /\ Direct(g, "push_read")

PullCall(g) == Direct(g, "pull_read")

NextDirect ==
    \E g \in Games :
        \/ PushCall(g)
        \/ PullCall(g)
        \/ PushWork(g)
        \/ PullWork(g)
        \/ WorkerFinished(g)
        \/ Between(LocalEdit(g))

SpecDirect == Init /\ [][NextDirect]_vars

(***************************************************************************)
(* remote_config_handler called directly, in each of its modes             *)
(***************************************************************************)
HandlerIndexes == {{}, {0}, {1}, {-1}, {3}}

HandlerKwargs ==
    {NoKwargs,
     [latest_hash |-> hash_dir(TreeA2)],
     [name |-> "new", saves |-> <<>>, latest_hash |-> ""]}

\* the call reads the document and works on it; it returns here unless it uploads
HandlerCall(delete, index, kwargs) ==
    /\ hcall.stage = "none"
    /\ Len(remote.games) < MaxDocGames \/ index # {} \/ kwargs = NoKwargs
    /\ remote.base_revision < MaxRevision \/ ~delete
    /\ LET r == Handler(remote, delete, index, kwargs)
       IN  hcall' = IF app_config = "None"
                    THEN [stage |-> "none_returned", delete |-> delete, index |-> index,
                          kwargs |-> kwargs, doc |-> NoDoc, ret |-> <<>>, reads |-> 0,
                          writes |-> 0]
                    ELSE [stage |-> IF r.exc # "none" THEN "raised"
                                    ELSE IF r.write THEN "read" ELSE "returned",
                          delete |-> delete, index |-> index, kwargs |-> kwargs,
                          doc |-> r.doc, ret |-> r.ret, reads |-> 1, writes |-> 0]
    /\ UNCHANGED <<Fixed, Stores, pc, Locals, result, pre, ops>>

\* self.app_config.SetContentString(json.dumps(working_json)); self.app_config.Upload()
HandlerUpload ==
    /\ hcall.stage = "read"
    /\ remote' = hcall.doc
    /\ hcall' = [hcall EXCEPT !.stage = "returned", !.writes = @ + 1]
    /\ UNCHANGED <<Fixed, drive, local_config, settings, dirs, temp, clock, pc, Locals,
                   result, pre, ops>>

\* the caller has the return value, or the exception
HandlerReturn ==
    /\ hcall.stage \in {"returned", "raised", "none_returned"}
    /\ hcall' = NoCall
    /\ UNCHANGED <<Fixed, Stores, pc, Locals, result, pre, ops>>

NextHandler ==
    \/ \E delete \in BOOLEAN, index \in HandlerIndexes, kwargs \in HandlerKwargs :
          HandlerCall(delete, index, kwargs)
    \/ HandlerUpload
    \/ HandlerReturn

SpecHandler == Init /\ [][NextHandler]_vars

(***************************************************************************)
(* consecutive_save_sync: one worker per game, the first started at once,  *)
(* the others queued and started by sync_queue_delegate, the slot of every *)
(* worker's finished signal                                                *)
(***************************************************************************)
QueueIdle == AllIdle /\ thread_queue = <<>>

\* for i, game in enumerate(self.settings['games']): the local indices
Enabled == {g \in Games : g < Len(local_config.games)}

\* ConsecutiveSaveSync with threadpool.start(worker) in the loop: every worker
\* is started at once and none is queued
ConsecutiveSaveSyncStartAll ==
    /\ usr_input
    /\ QueueIdle
    /\ usr_input' = FALSE
    /\ thread_queue' = <<>>
    /\ started' = [i \in 1 .. Len(local_config.games) |-> i - 1]
    /\ pc' = [g \in Games |-> IF g \in Enabled THEN "start" ELSE pc[g]]
    /\ result' = [g \in Games |-> "none"]
    /\ UNCHANGED <<impl, app_config, hashed, twin, Stores, Locals, pre, ops, hcall>>

\* the sync button is clicked: allow_usr_input(False), one worker per game of
\* the settings, the first as initial_worker and the others queued, then
\* threadpool.start(initial_worker).  With no game in the settings
\* initial_worker is None and threadpool.start(None) starts nothing, whether
\* it returns or raises: no worker runs and no finished signal will call
\* sync_queue_delegate
ConsecutiveSaveSync ==
    /\ usr_input
    /\ QueueIdle
    /\ usr_input' = FALSE
    /\ IF Enabled = {}
       THEN UNCHANGED <<thread_queue, started, pc>>
       ELSE /\ thread_queue' = [i \in 1 .. (Len(local_config.games) - 1) |-> i]
            /\ started' = <<0>>
            /\ pc' = [pc EXCEPT ![0] = "start"]
    /\ result' = [g \in Games |-> "none"]
    /\ UNCHANGED <<impl, app_config, hashed, twin, Stores, Locals, pre, ops, hcall>>

\* Worker.run of a worker the pool has started: self.fn(*self.args) is sync(i)
WorkerRun(g) ==
    /\ pc[g] = "start"
    /\ CanName(g, MaxClock)
    /\ Enter(g)

\* SyncQueueDelegate as a slot of the result signal: a worker that raised
\* emits no result, and the queue stops there
SyncQueueDelegateOnResult(g) ==
    /\ pc[g] = "done"
    /\ IF result[g] \notin {"conflict", "pulled", "pushed", "noop"}
       THEN /\ pc' = [pc EXCEPT ![g] = "idle"]
            /\ thread_queue' = <<>>
            /\ usr_input' = TRUE
            /\ started' = <<>>
       ELSE IF thread_queue # <<>>
            THEN /\ pc' = [pc EXCEPT ![g] = "idle", ![Head(thread_queue)] = "start"]
                 /\ thread_queue' = Tail(thread_queue)
                 /\ started' = Append(started, Head(thread_queue))
                 /\ UNCHANGED usr_input
            ELSE /\ pc' = [pc EXCEPT ![g] = "idle"]
                 /\ usr_input' = TRUE
                 /\ started' = <<>>
                 /\ UNCHANGED thread_queue
    /\ saves_list' = [saves_list EXCEPT ![g] = <<>>]
    /\ game_config' = [game_config EXCEPT ![g] = <<>>]
    /\ working_json' = [working_json EXCEPT ![g] = NoDoc]
    /\ archive' = [archive EXCEPT ![g] = NoFile]
    /\ pre' = [pre EXCEPT ![g] = NoPre]
    /\ ops' = [ops EXCEPT ![g] = NoOps]
    /\ UNCHANGED <<impl, app_config, hashed, twin, Stores, result, hcall>>

\* self.signals.finished.emit() in the finally of Worker.run, and its slot
\* sync_queue_delegate: the next worker is popped and started, or the queue is
\* empty and allow_usr_input(True) ends the run; what the worker emitted,
\* result or error, stays reported
SyncQueueDelegate(g) ==
    /\ pc[g] = "done"
    /\ IF thread_queue # <<>>
       THEN /\ pc' = [pc EXCEPT ![g] = "idle", ![Head(thread_queue)] = "start"]
            /\ thread_queue' = Tail(thread_queue)
            /\ started' = Append(started, Head(thread_queue))
            /\ UNCHANGED usr_input
       ELSE /\ pc' = [pc EXCEPT ![g] = "idle"]
            /\ usr_input' = TRUE
            /\ started' = <<>>
            /\ UNCHANGED thread_queue
    /\ saves_list' = [saves_list EXCEPT ![g] = <<>>]
    /\ game_config' = [game_config EXCEPT ![g] = <<>>]
    /\ working_json' = [working_json EXCEPT ![g] = NoDoc]
    /\ archive' = [archive EXCEPT ![g] = NoFile]
    /\ pre' = [pre EXCEPT ![g] = NoPre]
    /\ ops' = [ops EXCEPT ![g] = NoOps]
    /\ UNCHANGED <<impl, app_config, hashed, twin, Stores, result, hcall>>

\* the games and the other installations act between two runs of the queue
NextQueue ==
    \/ ConsecutiveSaveSync
    \/ \E g \in Enabled :
          \/ WorkerRun(g)
          \/ Work(g)
          \/ SyncQueueDelegate(g)
          \/ QueueIdle /\ usr_input /\ LocalEdit(g)
          \/ QueueIdle /\ usr_input /\ clock < MaxClock /\ OtherClientPush(g)

\* self.session = SyncSession(self.report_progress), the class of sync_module,
\* with every game enabled, or with no game enabled yet
InitQueue ==
    /\ impl = "sync_module"
    /\ app_config \in {"None", "config.json"}
    /\ \/ \E kind \in [Games -> {"synced", "fresh"}] : InitSession(kind)
       \/ InitEnabled([g \in Games |-> "fresh"], 0)

SpecQueue == InitQueue /\ [][NextQueue]_vars

(***************************************************************************)
(* The same sync(local_index) made by SyncSession and by ManagerSession:   *)
(* one class runs it from a state of the files, the drive and the session, *)
(* then the other class runs it from that same state, every transfer       *)
(* succeeding in both                                                      *)
(***************************************************************************)
OtherImpl == IF impl = "sync_module" THEN "savemgr" ELSE "sync_module"

\* the branch a sync took, or its error, and what it left
Outcome(g) == [result |-> result[g], remote |-> remote, settings |-> settings,
               dirs |-> dirs]

\* the state both classes start from is fixed
TwinBegin(g) ==
    /\ AllIdle
    /\ twin.stage = "none"
    /\ twin' = [stage |-> "first", g |-> g,
                start |-> [remote |-> remote, drive |-> drive, local_config |-> local_config,
                           settings |-> settings, dirs |-> dirs, temp |-> temp,
                           clock |-> clock],
                first |-> NoOutcome]
    /\ UNCHANGED <<impl, app_config, hashed, thread_queue, usr_input, started, Stores, pc,
                   Locals, result, pre, ops, hcall>>

\* sync(local_index) of the class that is constructed now
TwinCall(g) ==
    /\ twin.stage \in {"first", "second"}
    /\ twin.g = g
    /\ CanName(g, MaxClock)
    /\ Call(g)

\* the first class has returned or raised: the other class is constructed on
\* the state the first started from
TwinSwitch(g) ==
    /\ twin.stage = "first"
    /\ twin.g = g
    /\ pc[g] = "done"
    /\ twin' = [twin EXCEPT !.stage = "second", !.first = Outcome(g)]
    /\ impl' = OtherImpl
    /\ remote' = twin.start.remote
    /\ drive' = twin.start.drive
    /\ local_config' = twin.start.local_config
    /\ settings' = twin.start.settings
    /\ dirs' = twin.start.dirs
    /\ temp' = twin.start.temp
    /\ clock' = twin.start.clock
    /\ pc' = [pc EXCEPT ![g] = "idle"]
    /\ result' = [result EXCEPT ![g] = "none"]
    /\ saves_list' = [saves_list EXCEPT ![g] = <<>>]
    /\ game_config' = [game_config EXCEPT ![g] = <<>>]
    /\ working_json' = [working_json EXCEPT ![g] = NoDoc]
    /\ archive' = [archive EXCEPT ![g] = NoFile]
    /\ pre' = [pre EXCEPT ![g] = NoPre]
    /\ ops' = [ops EXCEPT ![g] = NoOps]
    /\ UNCHANGED <<app_config, hashed, thread_queue, usr_input, started, hcall>>

\* the second class has returned or raised: the session goes on from there
TwinEnd(g) ==
    /\ twin.stage = "second"
    /\ twin.g = g
    /\ pc[g] = "done"
    /\ twin' = NoTwin
    /\ pc' = [pc EXCEPT ![g] = "idle"]
    /\ result' = [result EXCEPT ![g] = "none"]
    /\ saves_list' = [saves_list EXCEPT ![g] = <<>>]
    /\ game_config' = [game_config EXCEPT ![g] = <<>>]
    /\ working_json' = [working_json EXCEPT ![g] = NoDoc]
    /\ archive' = [archive EXCEPT ![g] = NoFile]
    /\ pre' = [pre EXCEPT ![g] = NoPre]
    /\ ops' = [ops EXCEPT ![g] = NoOps]
    /\ UNCHANGED <<impl, app_config, hashed, thread_queue, usr_input, started, Stores,
                   hcall>>

\* the statements of sync, of push and of pull when every transfer succeeds
WorkTransferred(g) ==
    \/ SyncWork(g)
    \/ PushRead(g) \/ PushHash(g) \/ PushTar(g) \/ PushUpload(g) \/ PushPersist(g)
    \/ PushConfigRead(g) \/ PushConfigWrite(g)
    \/ PullRead(g) \/ PullDownload(g) \/ PullRmtree(g) \/ PullExtract(g) \/ PullFinish(g)

NextBoth ==
    \E g \in Games :
        \/ TwinBegin(g)
        \/ TwinCall(g)
        \/ WorkTransferred(g)
        \/ TwinSwitch(g)
        \/ TwinEnd(g)
        \/ twin.stage = "none" /\ Between(LocalEdit(g))
        \/ twin.stage = "none" /\ Between(TitlesLeft(MaxClock) /\ OtherClientPush(g))

SpecBoth == Init /\ [][NextBoth]_vars

(***************************************************************************)
(* hash_dir called directly, on the paths and under the enumeration orders *)
(* of the filesystem that follow                                           *)
(***************************************************************************)
TreeAB == [files |-> [a |-> "x", b |-> "y"], dirs |-> <<>>]
TreeBA == [files |-> [a |-> "y", b |-> "x"], dirs |-> <<>>]
TreeEmptyFile == [files |-> [a |-> ""], dirs |-> <<>>]
TreeSubOnly == [files |-> <<>>, dirs |-> [d |-> EmptyTree]]
TreeSub == [files |-> [a |-> "x"], dirs |-> [d |-> EmptyTree]]
TreeNested == [files |-> <<>>, dirs |-> [d |-> TreeA1]]
TreeDeep == [files |-> [a |-> "x"], dirs |-> [b |-> TreeBA, d |-> TreeSubOnly]]

HashTrees == SaveTrees \cup {TreeAB, TreeBA, TreeEmptyFile, TreeSubOnly, TreeSub,
                             TreeNested, TreeDeep}

HashPaths == {Missing} \cup {Present(t) : t \in HashTrees}

\* the orders in which the filesystem may hand out the names of a directory
Enums == {<<"a", "b", "d">>, <<"d", "b", "a">>}

Range(l) == {l[i] : i \in 1 .. Len(l)}

\* the files and the dirs that os.walk yields for a directory, in the
\* filesystem's order
os_walk(t, enum) ==
    [files |-> SelectSeq(enum, LAMBDA n : n \in DOMAIN t.files),
     dirs |-> SelectSeq(enum, LAMBDA n : n \in DOMAIN t.dirs)]

\* sorted without the sort: the list as it is
unsorted(l) == l

\* sorted(files), sorted(dirs)
sorted(l) == SelectSeq(NameOrder, LAMBDA n : n \in Range(l))

\* hash_dir of a directory, from what os.walk yields for it
RECURSIVE hash_dir_walk(_, _)
hash_dir_walk(t, enum) ==
    LET files == sorted(os_walk(t, enum).files)
        ds == sorted(os_walk(t, enum).dirs)
        hashes == [i \in 1 .. Len(files) |-> hash_file(t.files[files[i]])]
                  \o [i \in 1 .. Len(ds) |-> hash_dir_walk(t.dirs[ds[i]], enum)]
    IN  Sha1(Join(hashes))

\* hash_dir(path): for a path that does not exist os.walk yields nothing, the
\* loop body does not run and the digest of the empty string is returned
HashDirCall(d, enum) ==
    /\ hashed' = Append(IF Len(hashed) < MaxHashed THEN hashed ELSE Tail(hashed),
                        [path |-> d, enum |-> enum, exc |-> "none",
                         digest |-> IF d.present THEN hash_dir_walk(d.tree, enum)
                                                 ELSE Sha1(Join(<<>>))])
    /\ UNCHANGED <<impl, app_config, thread_queue, usr_input, started, twin, Stores, pc,
                   Locals, result, pre, ops, hcall>>

NextHash == \E d \in HashPaths, enum \in Enums : HashDirCall(d, enum)

\* hash_dir is a function of the module, the same in both files: one session,
\* which it does not read, and no call made yet
InitHash ==
    /\ impl = "sync_module"
    /\ app_config = "config.json"
    /\ InitSession([g \in Games |-> "synced"])

SpecHash == InitHash /\ [][NextHash]_vars

(***************************************************************************)
(* The claims                                                              *)
(***************************************************************************)
Running(g) == pc[g] # "idle"

Returned(g) == pc[g] = "done" /\ result[g] \in {"conflict", "pulled", "pushed", "noop"}

SavedEntry(g) == settings.games[PyIdx(settings.games, g)]

\* C1: a sync that is called when the save directory and the remote latest_hash
\* both differ from base_hash reports Conflict, and until it returns it has made
\* no transport call and no write of the remote document, and base_hash, the
\* settings, the directory and the drive are as they were.
C1_ConflictPrecedence ==
    \A g \in Games :
        (Running(g) /\ pre[g].ok /\ pre[g].lc /\ pre[g].rc) =>
            /\ pc[g] \in {"c1_local", "c1_remote", "done"}
            /\ pc[g] = "done" => result[g] = "conflict" /\ saves_list[g] = pre[g].entry
            /\ ops[g].transport = 0 /\ ops[g].writes = 0
            /\ LocalEntry(g).base_hash = pre[g].base
            /\ settings = pre[g].settings
            /\ remote = pre[g].remote
            /\ dirs[LocalEntry(g).path] = pre[g].dir
            /\ Len(drive) = pre[g].files

C1_Witness ==
    \E g \in Games :
        pc[g] = "done" /\ result[g] = "conflict" /\ pre[g].lc /\ pre[g].rc /\ ops[g].reads = 2

\* C2: a sync that is called when the save directory and the remote latest_hash
\* both equal base_hash ends in the no-op branch, and until it returns it has
\* made no write of the remote document and no transport call, and the settings,
\* the directory and the remote document are as they were.
C2_NoOpFrame ==
    \A g \in Games :
        (Running(g) /\ pre[g].ok /\ ~pre[g].lc /\ ~pre[g].rc) =>
            /\ pc[g] = "done" => result[g] = "noop"
            /\ ops[g].transport = 0 /\ ops[g].writes = 0
            /\ settings = pre[g].settings
            /\ LocalEntry(g).base_hash = pre[g].base
            /\ remote = pre[g].remote
            /\ dirs[LocalEntry(g).path] = pre[g].dir
            /\ Len(drive) = pre[g].files

C2_Witness ==
    \E g \in Games :
        pc[g] = "done" /\ result[g] = "noop" /\ pre[g].ok /\ ~pre[g].lc /\ ~pre[g].rc

\* C3: a sync of SyncSession that is called when only the save directory differs
\* from base_hash and that returns has pushed: the remote latest_hash, the
\* base_hash in memory and the base_hash in settings.json are the hash of the
\* directory, and the remote saves are the saves of before followed by the id
\* of one new archive, which holds the directory.
C3_PushScenario ==
    \A g \in Games :
        (impl = "sync_module" /\ Returned(g) /\ pre[g].ok /\ pre[g].lc /\ ~pre[g].rc) =>
            /\ result[g] = "pushed"
            /\ RemoteEntry(g)["latest_hash"] = HashPath(pre[g].dir)
            /\ LocalEntry(g).base_hash = HashPath(pre[g].dir)
            /\ SavedEntry(g).base_hash = HashPath(pre[g].dir)
            /\ RemoteEntry(g)["saves"] = Append(pre[g].entry["saves"], archive[g].id)
            /\ archive[g].id = pre[g].files + 1
            /\ Len(drive) = pre[g].files + 1
            /\ drive[archive[g].id].tree = pre[g].dir.tree
            /\ dirs[LocalEntry(g).path] = pre[g].dir

C3_Witness ==
    \E g \in Games :
        /\ impl = "sync_module" /\ pc[g] = "done" /\ result[g] = "pushed"
        /\ pre[g].lc /\ ~pre[g].rc /\ pre[g].entry["saves"] # <<>>
        /\ HashPath(pre[g].dir) # pre[g].base

\* C4: a sync that is called when only the remote latest_hash differs from
\* base_hash and that returns has pulled: base_hash, in memory and in
\* settings.json, is the remote latest_hash, the directory holds what the last
\* archive of the remote saves holds, and the remote document is as it was.
C4_PullScenario ==
    \A g \in Games :
        (Returned(g) /\ pre[g].ok /\ ~pre[g].lc /\ pre[g].rc) =>
            /\ result[g] = "pulled"
            /\ LocalEntry(g).base_hash = pre[g].entry["latest_hash"]
            /\ SavedEntry(g).base_hash = pre[g].entry["latest_hash"]
            /\ dirs[LocalEntry(g).path] = Present(pre[g].arch)
            /\ remote = pre[g].remote
            /\ ops[g].writes = 0
            /\ Len(drive) = pre[g].files

C4_Witness ==
    \E g \in Games :
        /\ pc[g] = "done" /\ result[g] = "pulled" /\ ~pre[g].lc /\ pre[g].rc
        /\ Len(pre[g].entry["saves"]) > 1
        /\ dirs[LocalEntry(g).path] # pre[g].dir

\* C5: when a sync has returned through the push, the pull or the no-op branch,
\* the game's base_hash, the hash of its save directory and the latest_hash of
\* its remote entry are equal.
C5_SyncInvariant ==
    \A g \in Games :
        (pc[g] = "done" /\ result[g] \in {"pushed", "pulled", "noop"}) =>
            /\ LocalEntry(g).base_hash = HashPath(dirs[LocalEntry(g).path])
            /\ LocalEntry(g).base_hash = RemoteEntry(g)["latest_hash"]

\* C6: when push has failed at the upload of the archive, the base_hash the
\* session uses in diff is the one of before the call, so that the game is still
\* locally changed and not remotely changed, which is the push branch.
C6_FailedPushKeepsBase ==
    \A g \in Games :
        (pc[g] = "done" /\ result[g] = "UploadError") =>
            /\ LocalEntry(g).base_hash = pre[g].base
            /\ DiffLocal(g)
            /\ ~DiffRemote(g)

\* C7: when pull has failed, at the download or at the extraction, the save
\* directory is present with the content it had before the call.
C7_PullKeepsDirectory ==
    \A g \in Games :
        (pc[g] = "done" /\ result[g] \in {"DownloadError", "ArchiveCorrupt"}) =>
            dirs[LocalEntry(g).path] = pre[g].dir

\* the remote entry and the persisted base_hash a call leaves when it runs alone
SerialEntry(g) ==
    IF result[g] = "pushed" /\ impl = "sync_module"
    THEN [pre[g].entry EXCEPT !["latest_hash"] = HashPath(pre[g].dir),
                              !["saves"] = Append(@, archive[g].id)]
    ELSE pre[g].entry

SerialBase(g) ==
    IF result[g] = "pushed" /\ impl = "sync_module" THEN HashPath(pre[g].dir)
    ELSE IF result[g] = "pulled" THEN pre[g].entry["latest_hash"]
    ELSE pre[g].base

\* C8: when the syncs of the two games, run by workers that overlap, have both
\* returned, the remote entry of each game and its base_hash are what its sync
\* leaves when it runs alone: no update of either game is lost.
C8_ConcurrentSyncsSerialisable ==
    (\A g \in Games : Returned(g)) =>
        \A g \in Games :
            /\ RemoteEntry(g) = SerialEntry(g)
            /\ LocalEntry(g).base_hash = SerialBase(g)

IsPrefix(s, t) == Len(s) <= Len(t) /\ \A i \in 1 .. Len(s) : s[i] = t[i]

\* C9: in every step, of any worker, the saves of every remote entry keep the
\* ids they hold at the positions they hold them: the list only grows at its end.
C9_SavesAppendOnly ==
    [][\A i \in 1 .. Len(remote.games) :
          /\ i <= Len(remote'.games)
          /\ IsPrefix(remote.games[i]["saves"], remote'.games[i]["saves"])]_vars

\* the handler is called to update, to append or to delete
Mutating(c) == c.kwargs # NoKwargs \/ c.delete

\* C10: a call of remote_config_handler that updates, appends or deletes reads
\* the document once and then uploads the whole document once; a call that
\* gets reads the document once and uploads nothing.
C10_ReadModifyWrite ==
    /\ hcall.stage = "read" => Mutating(hcall) /\ hcall.reads = 1 /\ hcall.writes = 0
    /\ hcall.stage = "returned" =>
          /\ hcall.reads = 1
          /\ hcall.writes = IF Mutating(hcall) THEN 1 ELSE 0
          /\ Mutating(hcall) => remote = hcall.doc

C10_Witness ==
    /\ hcall.stage = "returned" /\ hcall.delete /\ hcall.writes = 1
    /\ remote.base_revision = 1

\* the position in the games list that the index of the call in flight names
Position(c, doc) == PyIdx(doc.games, CHOOSE i \in c.index : TRUE)

\* C11: the upload of a delete leaves a document whose base_revision is one
\* more and whose games list is the one of before without the entry at the
\* index: one entry less, the entries before the index as they were, every
\* entry after the index one position down.
C11_DeleteRemovesOne ==
    [][(hcall.stage = "read" /\ hcall.delete /\ hcall'.stage = "returned") =>
          /\ remote'.base_revision = remote.base_revision + 1
          /\ Len(remote'.games) = Len(remote.games) - 1
          /\ \A j \in 1 .. Len(remote.games) :
                /\ j < Position(hcall, remote) => remote'.games[j] = remote.games[j]
                /\ j > Position(hcall, remote) => remote'.games[j - 1] = remote.games[j]]_vars

C11_Witness ==
    /\ hcall.stage = "returned" /\ hcall.delete /\ hcall.index = {1}
    /\ Len(remote.games) = 2
    /\ remote.games[2] = [name |-> "new", saves |-> <<>>, latest_hash |-> ""]

\* the call in flight is an append: kwargs and no index
Appending(c) == ~c.delete /\ c.index = {} /\ c.kwargs # NoKwargs

\* C12: an append holds the entries of before at their indices and one more,
\* and once it has returned a get with index -1 returns the fields that were
\* appended.
C12_AppendThenGet ==
    Appending(hcall) =>
        /\ hcall.stage = "read" =>
              /\ Len(hcall.doc.games) = Len(remote.games) + 1
              /\ \A j \in 1 .. Len(remote.games) : hcall.doc.games[j] = remote.games[j]
        /\ hcall.stage = "returned" =>
              /\ remote = hcall.doc
              /\ Handler(remote, FALSE, {-1}, NoKwargs).exc = "none"
              /\ Handler(remote, FALSE, {-1}, NoKwargs).ret = hcall.kwargs

C12_Witness ==
    /\ Appending(hcall) /\ hcall.stage = "returned"
    /\ Len(remote.games) = 3
    /\ Handler(remote, FALSE, {-1}, NoKwargs).ret =
          [name |-> "new", saves |-> <<>>, latest_hash |-> ""]

\* C13: in every step of a single writer base_revision stays or grows: it is one
\* more when a delete completes and the same in every other step, of a get, an
\* update or an append.
C13_RevisionMonotone ==
    [][/\ remote'.base_revision >= remote.base_revision
       /\ remote'.base_revision - remote.base_revision =
             IF hcall'.delete /\ hcall'.stage = "returned" /\ hcall.stage # "returned"
             THEN 1 ELSE 0]_vars

C13_Witness ==
    /\ remote.base_revision = 1
    /\ Appending(hcall) /\ hcall.stage = "returned" /\ hcall.writes = 1

\* C14: a sync that is called when the save directory cannot be hashed, for it
\* does not exist, or when the remote document cannot be read, for there is no
\* app_config, makes no transport call and no write of the document and ends
\* with an error, in none of the branches.
C14_FailuresAbort ==
    \A g \in Games :
        (Running(g) /\ (app_config = "None" \/ ~pre[g].dir.present)) =>
            /\ ops[g].transport = 0 /\ ops[g].writes = 0
            /\ ~Returned(g)

\* C15: two directories that exist and that differ, in the bytes of a file, in
\* the name of a file or in their structure, have different digests.
C15_HashDistinguishes ==
    \A i, j \in DOMAIN hashed :
        (hashed[i].path.present /\ hashed[j].path.present
            /\ hashed[i].path.tree # hashed[j].path.tree) =>
                hashed[i].digest # hashed[j].digest

\* C16: two calls of hash_dir on the same directory give the same digest, in
\* whatever order the filesystem hands out the names, and the digest is the
\* one sync computes for the directory.
C16_HashDeterministic ==
    \A i, j \in DOMAIN hashed :
        hashed[i].path = hashed[j].path =>
            /\ hashed[i].digest = hashed[j].digest
            /\ hashed[i].digest = HashPath(hashed[i].path)

C16_Witness ==
    /\ Len(hashed) = 2
    /\ hashed[1].path = Present(TreeDeep) /\ hashed[2].path = Present(TreeDeep)
    /\ hashed[1].enum # hashed[2].enum
    /\ os_walk(TreeDeep, hashed[1].enum).dirs # os_walk(TreeDeep, hashed[2].enum).dirs

\* C17: a call of hash_dir on a path that does not exist raises and gives no
\* digest.
C17_HashMissingFails ==
    \A i \in DOMAIN hashed :
        ~hashed[i].path.present => hashed[i].exc # "none"

\* a directory with one more subdirectory, which is empty
WithEmptyDir(t) ==
    [files |-> t.files,
     dirs |-> [n \in DOMAIN t.dirs \cup {"d"} |-> IF n = "d" THEN EmptyTree ELSE t.dirs[n]]]

\* C18: a directory and the same directory with one more subdirectory, which
\* is empty, have the same digest.
C18_EmptyDirsIgnored ==
    \A i, j \in DOMAIN hashed :
        (hashed[i].path.present /\ hashed[j].path.present
            /\ "d" \notin DOMAIN hashed[i].path.tree.dirs
            /\ hashed[j].path.tree = WithEmptyDir(hashed[i].path.tree)) =>
                hashed[i].digest = hashed[j].digest

\* C19: a pull into a save directory that exists and is empty leaves in it the
\* content of the archive that was pushed last, so that its hash is the one
\* the push recorded for the directory it archived.
C19_RoundTrip ==
    \A g \in Games :
        (pc[g] = "done" /\ result[g] = "pulled" /\ pre[g].dir = Present(EmptyTree)) =>
            /\ dirs[LocalEntry(g).path] = Present(pre[g].arch)
            /\ HashPath(dirs[LocalEntry(g).path]) = pre[g].entry["latest_hash"]

\* what Worker.run emitted is an error
Raised(g) == result[g] \notin {"none", "conflict", "pulled", "pushed", "noop"}

\* C20: when a sync raises, the error is reported for its game and the report
\* of no other game changes; and when the worker of a sync that raised
\* finishes, the worker of the next queued game is started, the games after it
\* stay queued, and the error stays reported for the game that raised.
C20_SiblingsSurvive ==
    [][\A g \in Games :
          /\ (pc[g] # "done" /\ pc'[g] = "done" /\ Raised(g)') =>
                \A h \in Games \ {g} : result'[h] = result[h] /\ pc'[h] = pc[h]
          /\ (pc[g] = "done" /\ pc'[g] = "idle" /\ Raised(g) /\ thread_queue # <<>>) =>
                /\ pc'[Head(thread_queue)] = "start"
                /\ thread_queue' = Tail(thread_queue)
                /\ result' = result]_vars

C20_Witness ==
    /\ Raised(0) /\ pc[0] = "idle"
    /\ pc[1] = "done" /\ result[1] \in {"pulled", "pushed", "noop"}
    /\ thread_queue = <<>>

NonDecreasing(s) == \A i \in 1 .. (Len(s) - 1) : s[i] <= s[i + 1]

\* C21: the percent values a push or a pull of ManagerSession has passed to
\* progress_callback never decrease, and when the push or the pull has
\* completed the last value it passed is 100.
C21_ProgressReporting ==
    \A g \in Games :
        impl = "savemgr" =>
            /\ NonDecreasing(ops[g].progress)
            /\ (pc[g] = "done" /\ result[g] \in {"pushed", "pulled"}) =>
                  /\ ops[g].progress # <<>>
                  /\ ops[g].progress[Len(ops[g].progress)] = 100

\* C22: a sync that has returned has read the remote document once when it
\* ended in the conflict or in the no-op branch, and twice, once to classify
\* and once in push or in pull, when it pushed or pulled.
C22_ReadsPerSync ==
    \A g \in Games :
        Returned(g) =>
            ops[g].reads = IF result[g] \in {"conflict", "noop"} THEN 1 ELSE 2

\* C23: when a call has returned or has raised, and between two calls, the
\* settings in settings.json are the settings in memory: no game has a base_hash
\* in memory that is not the one on disk.
C23_PersistAfterMutation ==
    (\A g \in Games : pc[g] \in {"idle", "done"}) =>
        /\ settings = local_config
        /\ \A g \in Games : SavedEntry(g).base_hash = LocalEntry(g).base_hash

\* C24: when a push or a pull has completed, the archive it made or fetched in
\* temp/ is there no more, and temp/ holds no file it did not hold before.
C24_TempCleanup ==
    \A g \in Games :
        (pc[g] = "done" /\ result[g] \in {"pushed", "pulled"}) =>
            /\ \A f \in temp : f.title # archive[g].title
            /\ Cardinality(temp) <= pre[g].temp

\* the call in flight is an update: an index and kwargs
Updating(c) == ~c.delete /\ c.index # {} /\ c.kwargs # NoKwargs

\* C25: the upload of an update leaves base_revision, the length of the games
\* list and every entry but the one at the index as they were; the entry at
\* the index has the named fields with the values given and every other field
\* as it was; and the call returns that entry.
C25_UpdateIsLocal ==
    [][(hcall.stage = "read" /\ Updating(hcall) /\ hcall'.stage = "returned") =>
          LET p == Position(hcall, remote)
              old == remote.games[p]
              new == remote'.games[p]
          IN  /\ remote'.base_revision = remote.base_revision
              /\ Len(remote'.games) = Len(remote.games)
              /\ \A j \in 1 .. Len(remote.games) : j # p => remote'.games[j] = remote.games[j]
              /\ DOMAIN new = DOMAIN old \cup DOMAIN hcall.kwargs
              /\ \A k \in DOMAIN hcall.kwargs : new[k] = hcall.kwargs[k]
              /\ \A k \in DOMAIN old \ DOMAIN hcall.kwargs : new[k] = old[k]
              /\ hcall'.ret = new]_vars

C25_Witness ==
    /\ hcall.stage = "returned" /\ Updating(hcall) /\ hcall.index = {-1}
    /\ hcall.kwargs = [latest_hash |-> hash_dir(TreeA2)]
    /\ Len(remote.games) = 3
    /\ remote.games[3] = [name |-> "new", saves |-> <<>>, latest_hash |-> hash_dir(TreeA2)]
    /\ hcall.ret = remote.games[3]

\* the workers that have been started and have not finished
Active == {g \in Games : pc[g] # "idle"}

C27_InputReenabled ==
    /\ QueueIdle => usr_input
    /\ usr_input => QueueIdle

\* the pair (localChanged, remoteChanged) that a branch of sync stands for
BranchClass(r) ==
    CASE r = "conflict" -> <<TRUE, TRUE>>
      [] r = "pulled" -> <<FALSE, TRUE>>
      [] r = "pushed" -> <<TRUE, FALSE>>
      [] r = "noop" -> <<FALSE, FALSE>>

\* C28: when a sync has returned, also when the save directory or the remote
\* entry changed while it was classifying, the branch it took is the
\* classification of (localChanged, remoteChanged) as the pair stood at one
\* instant at least of the call.
C28_ConsistentSnapshot ==
    \A g \in Games :
        (Returned(g) /\ pre[g].ok) => BranchClass(result[g]) \in pre[g].seen

\* the call was the first sync of a game as add_game_entry and
\* enable_game_entry leave it, with a save directory that holds a save
FirstSync(g) ==
    /\ pre[g].ok
    /\ pre[g].base = EmptyHash
    /\ pre[g].entry["saves"] = <<>>
    /\ pre[g].entry["latest_hash"] = FreshLatestHash
    /\ pre[g].dir.present /\ pre[g].dir.tree # EmptyTree

\* C29: the first sync of a new game whose save directory holds a save ends
\* neither in the conflict branch nor in the pull branch, and when it has
\* returned it has pushed: one archive of the directory is on the drive and
\* the remote entry names it.
C29_FirstSavePushed ==
    \A g \in Games :
        (pc[g] = "done" /\ FirstSync(g)) =>
            /\ result[g] \notin {"conflict", "pulled", "IndexError"}
            /\ Returned(g) =>
                  /\ result[g] = "pushed"
                  /\ Len(drive) = pre[g].files + 1
                  /\ drive[Len(drive)].tree = pre[g].dir.tree
                  /\ RemoteEntry(g)["saves"] = <<Len(drive)>>

\* C30: while push has not written the remote entry, the base_hash in
\* settings.json is the one of before the call; so when push has failed at its
\* write of the remote document, the persisted base_hash is the old one and the
\* game is still classified as locally changed, not as remotely changed only.
C30_PushDurableAfterRemote ==
    \A g \in Games :
        /\ (pc[g] \in {"push_config_read", "push_config_write"}) =>
              SavedEntry(g).base_hash = pre[g].base
        /\ (pc[g] = "done" /\ result[g] = "ConfigUploadError") =>
              /\ SavedEntry(g).base_hash = pre[g].base
              /\ ~(~DiffLocal(g) /\ DiffRemote(g))

\* C31: while a sync of game i runs and when it has returned or raised, the
\* entry of every other game j in settings.json, its name, cloud_index, path and
\* base_hash, is the one settings.json held when the sync was called, also when
\* an earlier call for j failed part-way.
C31_OtherEntriesUntouched ==
    \A i \in Games :
        Running(i) =>
            \A j \in Games \ {i} :
                SavedEntry(j) = pre[i].settings.games[PyIdx(pre[i].settings.games, j)]

\* C32: when the second of the two classes has returned from the same sync,
\* started from the same remote document, drive, settings and directories,
\* it has taken the branch the first took and has left the remote document,
\* the settings and the save directories the first left.
C32_ImplementationsAgree ==
    \A g \in Games :
        (twin.stage = "second" /\ twin.g = g /\ pc[g] = "done") =>
            Outcome(g) = twin.first

====
